---- MODULE Spec2Model ----
(***************************************************************************)
(* Duplicate-sequence scan of belgian_blue.py: the GenBank files of a      *)
(* folder are chunked into batches (chunk_), the batches are visited as    *)
(* an M x M grid of cells (lower_triangular), every cell builds its list   *)
(* of record pairs (_triangle on the diagonal, _square above it) and main  *)
(* prints the pairs whose sequences are equal.  belgian_duplicates.py does  *)
(* the same scan over the CSV file belgian_buggy.py extracts.  Further:    *)
(* the image association of SheetContent (sheet_reader.py) and the VNTNAME *)
(* rewrite of belgian_edit.py.                                             *)
(***************************************************************************)
EXTENDS Integers, Sequences, FiniteSets, TLC

(* Bounds of the model. *)
MaxN == 5
MaxBatch == 4
ConcMaxN == 4
MaxRows == 2
MaxCalls == 3
MaxLines == 8

(* The sequences a file can hold. *)
Payloads == {"x", "y"}

(* The content of a file the GenBank parser rejects with a ValueError. *)
Malformed == "malformed"

(* The values of --max-files-batch: parse_cmd accepts any integer. *)
NBatchValues == {-1, 0} \cup (1..MaxBatch)

VARIABLES
    files,            \* the folder: files[i] is the sequence held by file i
    n_batch,          \* --max-files-batch
    pc,               \* position of main / of the generator it consumes
    chunks_of_files,  \* result of chunk_
    k_chunk1,         \* row index of the cell (0-based, as enumerate)
    k_chunk2,         \* column index of the cell
    data_pairs,       \* the list built for the current cell
    k_pair,           \* index in data_pairs of the next pair to yield
    visits,           \* history: the cells visited, with the strategy used
    yielded,          \* history: the pairs yielded, with their cell
    out,              \* stdout rows after the header: <<path_1, path_2>>
    n_counter,        \* main's counter of equal pairs
    summary,          \* the count printed at the end (-1: not printed)
    \* belgian_duplicates.py, the scan of the CSV extracted by belgian_buggy
    csv_pc,           \* position of main
    csv_k1,           \* k_chunk1
    csv_k2,           \* k_chunk2
    csv_df1,          \* df_1, the rows of the outer chunk
    csv_visits,       \* history: the cells, the rows read and compared
    csv_out,          \* stdout entries after the header: <<path1, path2>>
    \* two cells of belgian_blue.py run by two workers
    tmp_gb,           \* the content of the file tmp.gb
    w_cell,           \* w_cell[w]: the cell <<p, q>> worker w computes
    w_step,           \* w_step[w]: position of worker w in read_data
    w_got,            \* w_got[w]: the records read_data returned to w
    \* sheet_reader.py, one SheetContent instance and its caller
    sh_keys,          \* sh_keys[s]: the Group Key column of sheet s
    sh_imgs,          \* sheetname2img[s]: the images of sheet s, in order
    img_paths,        \* the images extracted from the workbook
    association,      \* self.association: None or the dict, as its items
    saved,            \* the images written by save_assocation
    sh_log,           \* history: the calls made, with their outcome
    \* belgian_edit.py, the rewrite of one file of the mapping
    ed_kinds,         \* the input file: what each line contains
    ed_pc,            \* position of main in the loop body
    ed_all_data,      \* all_data
    ed_out,           \* the lines of the output file
    ed_err            \* the exception that ended main ("none": none)

csvVars == <<csv_pc, csv_k1, csv_k2, csv_df1, csv_visits, csv_out>>

concVars == <<tmp_gb, w_cell, w_step, w_got>>

sheetVars == <<sh_keys, sh_imgs, img_paths, association, saved, sh_log>>

editVars == <<ed_kinds, ed_pc, ed_all_data, ed_out, ed_err>>

vars == <<files, n_batch, pc, chunks_of_files, k_chunk1, k_chunk2,
          data_pairs, k_pair, visits, yielded, out, n_counter, summary,
          csvVars, concVars, sheetVars, editVars>>

----------------------------------------------------------------------------
(* Helpers *)

RECURSIVE Concat(_)
Concat(ss) == IF ss = <<>> THEN <<>> ELSE Head(ss) \o Concat(Tail(ss))

SeqsUpTo(S, n) == UNION {[1..k -> S] : k \in 0..n}

----------------------------------------------------------------------------
(* get_gb_list: the paths of the folder's GenBank files; a path is the     *)
(* position of the file in the listing.                                    *)
get_gb_list(fs) == [i \in 1..Len(fs) |-> i]

genbank_files == get_gb_list(files)

(* Faulty variant of the test of line 93: no halving *)
ChunkFull_NoHalving(tmp, n) == Len(tmp) >= n

(* chunk_, line 93: len(tmp) >= float(n_batch) / 2.0 *)
ChunkFull(tmp, n) == 2 * Len(tmp) >= n

(* chunk_, lines 89-95: the loop over the files; gives <<ret_chunks, tmp>> *)
RECURSIVE chunk_loop(_, _, _, _)
chunk_loop(fs, n, tmp, ret) ==
    IF fs = <<>> THEN <<ret, tmp>>
    ELSE LET t == Append(tmp, Head(fs)) IN
         IF ChunkFull(t, n)
         THEN chunk_loop(Tail(fs), n, <<>>, Append(ret, t))
         ELSE chunk_loop(Tail(fs), n, t, ret)

(* Faulty variants of chunk_: no trailing batch, an unconditional trailing *)
(* batch, a strict single-batch test                                       *)
chunk_NoRemainder(fs, n) ==
    IF Len(fs) <= n THEN <<fs>>
    ELSE chunk_loop(fs, n, <<>>, <<>>)[1]

chunk_AlwaysAppend(fs, n) ==
    IF Len(fs) <= n THEN <<fs>>
    ELSE LET r == chunk_loop(fs, n, <<>>, <<>>) IN Append(r[1], r[2])

chunk_Strict(fs, n) ==
    IF Len(fs) < n THEN <<fs>>
    ELSE LET r == chunk_loop(fs, n, <<>>, <<>>) IN
         IF Len(r[2]) > 0 THEN Append(r[1], r[2]) ELSE r[1]

chunk_(fs, n) ==
    IF Len(fs) <= n THEN <<fs>>
    ELSE LET r == chunk_loop(fs, n, <<>>, <<>>) IN
         IF Len(r[2]) > 0 THEN Append(r[1], r[2]) ELSE r[1]

(* read_data: the salient data of one file *)
read_data(f) == [sequence |-> files[f], path |-> f]

(* Faulty variants of _square: the pair in the other order, an inner loop   *)
(* that stops one short                                                    *)
square_Swapped(chunk1, chunk2) ==
    Concat([k \in 1..Len(chunk1) |->
              [l \in 1..Len(chunk2) |->
                 <<read_data(chunk2[l]), read_data(chunk1[k])>>]])

square_ShortInner(chunk1, chunk2) ==
    Concat([k \in 1..Len(chunk1) |->
              [l \in 1..(Len(chunk2) - 1) |->
                 <<read_data(chunk1[k]), read_data(chunk2[l])>>]])

(* _square: every record of chunk1 with every record of chunk2 *)
_square(chunk1, chunk2) ==
    Concat([k \in 1..Len(chunk1) |->
              [l \in 1..Len(chunk2) |->
                 <<read_data(chunk1[k]), read_data(chunk2[l])>>]])

(* Faulty variant of _triangle: the inner loop starts at chunk[k:] *)
triangle_WithDiagonal(chunk) ==
    Concat([k \in 1..Len(chunk) |->
              [l \in 1..(Len(chunk) - k + 1) |->
                 <<read_data(chunk[k]), read_data(chunk[k + l - 1])>>]])

(* _triangle: every record of the chunk with the records after it *)
_triangle(chunk) ==
    Concat([k \in 1..Len(chunk) |->
              [l \in 1..(Len(chunk) - k) |->
                 <<read_data(chunk[k]), read_data(chunk[k + l])>>]])

(* read_data, lines 216-217: genbank_reader raises on a malformed file and  *)
(* nothing catches it; a cell whose list needs such a read raises.         *)
PairsRaise(pairs) ==
    \E i \in DOMAIN pairs :
       pairs[i][1].sequence = Malformed \/ pairs[i][2].sequence = Malformed

(* lower_triangular, lines 308-318: the pairs of cell (k1, k2) *)
CellPairs(chunks, k1, k2) ==
    IF k1 = k2 THEN _triangle(chunks[k1 + 1])
    ELSE IF k1 < k2 THEN _square(chunks[k1 + 1], chunks[k2 + 1])
    ELSE <<>>

(* lower_triangular as a whole: the pairs in the order they are yielded *)
lower_triangular(chunks) ==
    LET n_chunks == Len(chunks) IN
    Concat([c \in 1..(n_chunks * n_chunks) |->
              CellPairs(chunks, (c - 1) \div n_chunks, (c - 1) % n_chunks)])

(* main, line 341: data1['sequence'] == data2['sequence'] *)
SameSequence(d1, d2) == d1.sequence = d2.sequence

(* main, lines 339-346, as a function of the batch size: the set of rows   *)
(* a run with --max-files-batch = nb prints                                *)
MatchSet(nb) ==
    LET ys == lower_triangular(chunk_(genbank_files, nb)) IN
    {<<ys[i][1].path, ys[i][2].path>> :
        i \in {j \in DOMAIN ys : SameSequence(ys[j][1], ys[j][2])}}

----------------------------------------------------------------------------
(* State machine *)

Workers == {1, 2}

(* The CSV scan not started *)
CsvIdle ==
    /\ csv_pc = "idle"
    /\ csv_k1 = 0
    /\ csv_k2 = 0
    /\ csv_df1 = <<>>
    /\ csv_visits = <<>>
    /\ csv_out = <<>>

(* No worker started *)
ConcIdle ==
    /\ tmp_gb = ""
    /\ w_cell = [w \in Workers |-> <<0, 0>>]
    /\ w_step = [w \in Workers |-> "idle"]
    /\ w_got = [w \in Workers |-> <<>>]

(* The value of self.association after __init__, line 50 *)
NoneAssociation == [is_none |-> TRUE, items |-> <<>>]

(* No SheetContent instance made *)
SheetIdle ==
    /\ sh_keys = <<>>
    /\ sh_imgs = <<>>
    /\ img_paths = {}
    /\ association = NoneAssociation
    /\ saved = {}
    /\ sh_log = <<>>

(* belgian_edit not started *)
EditIdle ==
    /\ ed_kinds = <<>>
    /\ ed_pc = "idle"
    /\ ed_all_data = <<>>
    /\ ed_out = <<>>
    /\ ed_err = "none"

Init ==
    /\ files \in SeqsUpTo(Payloads, MaxN)
    /\ n_batch \in NBatchValues
    /\ pc = "main"
    /\ chunks_of_files = <<>>
    /\ k_chunk1 = 0
    /\ k_chunk2 = 0
    /\ data_pairs = <<>>
    /\ k_pair = 1
    /\ visits = <<>>
    /\ yielded = <<>>
    /\ out = <<>>
    /\ n_counter = 0
    /\ summary = -1
    /\ CsvIdle
    /\ ConcIdle
    /\ SheetIdle
    /\ EditIdle

(* main, lines 330-337: list the folder, chunk it, print the header; the   *)
(* first next() on the generator runs the check of lines 302-303.          *)
Main ==
    /\ pc = "main"
    /\ chunks_of_files' = chunk_(genbank_files, n_batch)
    /\ pc' = IF Len(chunks_of_files') = 0 THEN "raised" ELSE "cell"
    /\ UNCHANGED <<files, n_batch, k_chunk1, k_chunk2, data_pairs, k_pair,
                   visits, yielded, out, n_counter, summary>>
    /\ UNCHANGED <<csvVars, concVars, sheetVars, editVars>>

(* Faulty variant of Advance: the loops nested the other way round *)
Advance_ColumnMajor ==
    LET n_chunks == Len(chunks_of_files) IN
    IF k_chunk1 + 1 < n_chunks
    THEN /\ k_chunk1' = k_chunk1 + 1
         /\ k_chunk2' = k_chunk2
         /\ pc' = "cell"
    ELSE IF k_chunk2 + 1 < n_chunks
    THEN /\ k_chunk1' = 0
         /\ k_chunk2' = k_chunk2 + 1
         /\ pc' = "cell"
    ELSE /\ UNCHANGED <<k_chunk1, k_chunk2>>
         /\ pc' = "end"

(* Faulty variant of Advance: the outer loop stops one row short *)
Advance_SkipLastRow ==
    LET n_chunks == Len(chunks_of_files) IN
    IF k_chunk2 + 1 < n_chunks
    THEN /\ k_chunk2' = k_chunk2 + 1
         /\ k_chunk1' = k_chunk1
         /\ pc' = "cell"
    ELSE IF k_chunk1 + 1 < n_chunks - 1
    THEN /\ k_chunk2' = 0
         /\ k_chunk1' = k_chunk1 + 1
         /\ pc' = "cell"
    ELSE /\ UNCHANGED <<k_chunk1, k_chunk2>>
         /\ pc' = "end"

(* The two enumerate loops of lines 305-306: the cell after (k1, k2), or   *)
(* the end of the generator.                                               *)
Advance ==
    LET n_chunks == Len(chunks_of_files) IN
    IF k_chunk2 + 1 < n_chunks
    THEN /\ k_chunk2' = k_chunk2 + 1
         /\ k_chunk1' = k_chunk1
         /\ pc' = "cell"
    ELSE IF k_chunk1 + 1 < n_chunks
    THEN /\ k_chunk2' = 0
         /\ k_chunk1' = k_chunk1 + 1
         /\ pc' = "cell"
    ELSE /\ UNCHANGED <<k_chunk1, k_chunk2>>
         /\ pc' = "end"

(* Lines 320-325: a cell with pairs starts yielding them, a cell without   *)
(* goes on to the next cell.                                               *)
EnterCell(pairs, strategy) ==
    /\ data_pairs' = pairs
    /\ k_pair' = 1
    /\ visits' = Append(visits, [p |-> k_chunk1, q |-> k_chunk2,
                                 strategy |-> strategy])
    /\ IF Len(pairs) > 0
       THEN pc' = "yield" /\ UNCHANGED <<k_chunk1, k_chunk2>>
       ELSE Advance
    /\ UNCHANGED <<files, n_batch, chunks_of_files, yielded, out, n_counter,
                   summary>>
    /\ UNCHANGED <<csvVars, concVars, sheetVars, editVars>>

(* lower_triangular, lines 308-309 *)
CellTriangle ==
    /\ pc = "cell"
    /\ k_chunk1 = k_chunk2
    /\ ~PairsRaise(_triangle(chunks_of_files[k_chunk1 + 1]))
    /\ EnterCell(_triangle(chunks_of_files[k_chunk1 + 1]), "triangle")

(* lower_triangular, lines 311-312 *)
CellSquare ==
    /\ pc = "cell"
    /\ k_chunk1 < k_chunk2
    /\ ~PairsRaise(_square(chunks_of_files[k_chunk1 + 1],
                           chunks_of_files[k_chunk2 + 1]))
    /\ EnterCell(_square(chunks_of_files[k_chunk1 + 1],
                         chunks_of_files[k_chunk2 + 1]), "square")

(* lower_triangular, lines 314-315 *)
CellSkip ==
    /\ pc = "cell"
    /\ k_chunk1 > k_chunk2
    /\ EnterCell(<<>>, "skip")

(* Faulty variant of Yield: the counter is incremented for every pair *)
Yield_CountEveryPair ==
    /\ pc = "yield"
    /\ LET d1 == data_pairs[k_pair][1]
           d2 == data_pairs[k_pair][2]
       IN  /\ yielded' = Append(yielded, [d1 |-> d1, d2 |-> d2,
                                          p |-> k_chunk1, q |-> k_chunk2])
           /\ n_counter' = n_counter + 1
           /\ IF SameSequence(d1, d2)
              THEN out' = Append(out, <<d1.path, d2.path>>)
              ELSE UNCHANGED out
    /\ IF k_pair < Len(data_pairs)
       THEN /\ k_pair' = k_pair + 1
            /\ UNCHANGED <<pc, k_chunk1, k_chunk2>>
       ELSE /\ UNCHANGED k_pair
            /\ Advance
    /\ UNCHANGED <<files, n_batch, chunks_of_files, data_pairs, visits,
                   summary>>
    /\ UNCHANGED <<csvVars, concVars, sheetVars, editVars>>

(* lower_triangular, lines 324-325, and the body of main's loop, lines     *)
(* 339-346: one pair is yielded, compared and, when equal, printed.        *)
Yield ==
    /\ pc = "yield"
    /\ LET d1 == data_pairs[k_pair][1]
           d2 == data_pairs[k_pair][2]
       IN  /\ yielded' = Append(yielded, [d1 |-> d1, d2 |-> d2,
                                          p |-> k_chunk1, q |-> k_chunk2])
           /\ IF SameSequence(d1, d2)
              THEN /\ n_counter' = n_counter + 1
                   /\ out' = Append(out, <<d1.path, d2.path>>)
              ELSE UNCHANGED <<n_counter, out>>
    /\ IF k_pair < Len(data_pairs)
       THEN /\ k_pair' = k_pair + 1
            /\ UNCHANGED <<pc, k_chunk1, k_chunk2>>
       ELSE /\ UNCHANGED k_pair
            /\ Advance
    /\ UNCHANGED <<files, n_batch, chunks_of_files, data_pairs, visits,
                   summary>>
    /\ UNCHANGED <<csvVars, concVars, sheetVars, editVars>>

(* main, line 348: the generator is exhausted, the count is printed *)
Finish ==
    /\ pc = "end"
    /\ summary' = n_counter
    /\ pc' = "done"
    /\ UNCHANGED <<files, n_batch, chunks_of_files, k_chunk1, k_chunk2,
                   data_pairs, k_pair, visits, yielded, out, n_counter>>
    /\ UNCHANGED <<csvVars, concVars, sheetVars, editVars>>

Next ==
    \/ Main
    \/ CellTriangle
    \/ CellSquare
    \/ CellSkip
    \/ Yield
    \/ Finish

Spec == Init /\ [][Next]_vars

(* main's for loop keeps calling next() on the generator until it is       *)
(* exhausted: every enabled step of the run is eventually taken.           *)
SpecFair == Init /\ [][Next]_vars /\ WF_vars(Next)

----------------------------------------------------------------------------
(* The same scan over a folder that may hold malformed files *)

InitErr ==
    /\ files \in SeqsUpTo(Payloads \cup {Malformed}, MaxN)
    /\ n_batch \in NBatchValues
    /\ pc = "main"
    /\ chunks_of_files = <<>>
    /\ k_chunk1 = 0
    /\ k_chunk2 = 0
    /\ data_pairs = <<>>
    /\ k_pair = 1
    /\ visits = <<>>
    /\ yielded = <<>>
    /\ out = <<>>
    /\ n_counter = 0
    /\ summary = -1
    /\ CsvIdle
    /\ ConcIdle
    /\ SheetIdle
    /\ EditIdle

(* _triangle / _square, lines 245-249 and 274-278: a read_data call of the *)
(* cell raises ValueError; it leaves the generator and main (no handler):  *)
(* the run ends with a traceback, without the count of line 348.           *)
CellAbort ==
    /\ pc = "cell"
    /\ PairsRaise(CellPairs(chunks_of_files, k_chunk1, k_chunk2))
    /\ pc' = "aborted"
    /\ visits' = Append(visits, [p |-> k_chunk1, q |-> k_chunk2,
                                 strategy |-> IF k_chunk1 = k_chunk2
                                              THEN "triangle" ELSE "square"])
    /\ UNCHANGED <<files, n_batch, chunks_of_files, k_chunk1, k_chunk2,
                   data_pairs, k_pair, yielded, out, n_counter, summary>>
    /\ UNCHANGED <<csvVars, concVars, sheetVars, editVars>>

NextErr ==
    \/ Main
    \/ CellTriangle
    \/ CellSquare
    \/ CellSkip
    \/ CellAbort
    \/ Yield
    \/ Finish

SpecErr == InitErr /\ [][NextErr]_vars

----------------------------------------------------------------------------
(* belgian_buggy.py and belgian_duplicates.py: the folder is extracted to  *)
(* a CSV file, one row per file, and the rows are scanned chunk by chunk   *)

(* belgian_buggy.read_data, lines 207-208: the value put in place of the   *)
(* sequence of a file the parser rejects                                   *)
Sentinel == "MALFORMED_GENBANK_FILE"

(* belgian_buggy.read_data, lines 195-213 *)
buggy_read_data(f) ==
    IF files[f] = Malformed
    THEN [sequence |-> Sentinel, path |-> f]
    ELSE [sequence |-> files[f], path |-> f]

(* A sequence whose text is one of the strings pd.read_csv reads as a      *)
(* missing value (its default na_values): the bases N and A                *)
NaText == "NA"

(* The float nan pd.read_csv puts in the place of a missing value *)
NaN == "nan"

(* pd.read_csv, lines 98 and 101, on the text of a field of the sequence   *)
(* column: with the default keep_default_na the text NA is read as nan,    *)
(* any other text as itself                                                *)
read_csv_field(text) == IF text = NaText THEN NaN ELSE text

(* belgian_buggy.main, lines 223-230, read back by pd.read_csv: one row    *)
(* per file, in the order of the listing, with the 0-based row index       *)
csv_rows ==
    [i \in 1..Len(files) |->
        [index |-> i - 1,
         path |-> buggy_read_data(genbank_files[i]).path,
         sequence |-> read_csv_field(buggy_read_data(genbank_files[i]).sequence)]]

(* belgian_duplicates.main, line 98: chunksize = n_batch / 2 is a float;   *)
(* pd.read_csv takes it when it is a whole number >= 1 and raises          *)
(* ValueError otherwise                                                    *)
ChunkSizeValid(n) == n % 2 = 0 /\ n \div 2 >= 1

(* The number of chunks the reader gives for chunks of c rows *)
NChunks(c) == (Len(files) + c - 1) \div c

(* enumerate(df_reader), lines 100 and 103: chunk k (0-based) of c rows *)
read_csv_chunk(k, c) ==
    LET first == k * c + 1
        last == IF (k + 1) * c < Len(files) THEN (k + 1) * c ELSE Len(files)
    IN  SubSeq(csv_rows, first, last)

(* The two iterrows loops of square_test and triangle_test *)
RowPairs(df1, df2) ==
    Concat([k \in 1..Len(df1) |->
              [l \in 1..Len(df2) |-> <<df1[k], df2[l]>>]])

(* Faulty variant of the comparison: row1 on both sides *)
SameSequenceCsv_Self(row1, row2) ==
    /\ row1.sequence # NaN
    /\ row1.sequence = row1.sequence

(* Lines 55 and 83: row1.sequence == row2.sequence; a nan is equal to no   *)
(* value, itself included                                                  *)
SameSequenceCsv(row1, row2) ==
    /\ row1.sequence # NaN
    /\ row1.sequence = row2.sequence

Entries(rps) == [i \in DOMAIN rps |-> <<rps[i][1].path, rps[i][2].path>>]

(* square_test, lines 50-62 *)
square_test(df1, df2) ==
    Entries(SelectSeq(RowPairs(df1, df2),
                      LAMBDA rp : SameSequenceCsv(rp[1], rp[2])))

(* triangle_test, lines 74-90 *)
triangle_test(df1, df2) ==
    Entries(SelectSeq(RowPairs(df1, df2),
                      LAMBDA rp : /\ ~(rp[1].index >= rp[2].index)
                                  /\ SameSequenceCsv(rp[1], rp[2])))

(* The sequence comparisons triangle_test makes: lines 79-83 *)
TriangleCompared(df1, df2) ==
    Len(SelectSeq(RowPairs(df1, df2),
                  LAMBDA rp : ~(rp[1].index >= rp[2].index)))

(* The blue scan not started *)
BlueIdle ==
    /\ pc = "idle"
    /\ chunks_of_files = <<>>
    /\ k_chunk1 = 0
    /\ k_chunk2 = 0
    /\ data_pairs = <<>>
    /\ k_pair = 1
    /\ visits = <<>>
    /\ yielded = <<>>
    /\ out = <<>>
    /\ n_counter = 0
    /\ summary = -1

blueVars == <<files, n_batch, pc, chunks_of_files, k_chunk1, k_chunk2,
              data_pairs, k_pair, visits, yielded, out, n_counter, summary>>

InitCsv ==
    /\ files \in SeqsUpTo(Payloads \cup {NaText, Malformed}, MaxN) \ {<<>>}
    /\ n_batch \in NBatchValues
    /\ BlueIdle
    /\ csv_pc = "main"
    /\ csv_k1 = 0
    /\ csv_k2 = 0
    /\ csv_df1 = <<>>
    /\ csv_visits = <<>>
    /\ csv_out = <<>>
    /\ ConcIdle
    /\ SheetIdle
    /\ EditIdle

(* main, lines 94-98: the header is printed and the reader is made *)
CsvMain ==
    /\ csv_pc = "main"
    /\ csv_pc' = IF ChunkSizeValid(n_batch) THEN "outer" ELSE "raised"
    /\ UNCHANGED <<csv_k1, csv_k2, csv_df1, csv_visits, csv_out>>
    /\ UNCHANGED <<blueVars, concVars, sheetVars, editVars>>

(* main, lines 100-101: the outer reader gives df_1, or is exhausted *)
CsvOuter ==
    /\ csv_pc = "outer"
    /\ IF csv_k1 < NChunks(n_batch \div 2)
       THEN /\ csv_df1' = read_csv_chunk(csv_k1, n_batch \div 2)
            /\ csv_pc' = "inner"
       ELSE /\ csv_df1' = csv_df1
            /\ csv_pc' = "done"
    /\ csv_k2' = 0
    /\ UNCHANGED <<csv_k1, csv_visits, csv_out>>
    /\ UNCHANGED <<blueVars, concVars, sheetVars, editVars>>

(* main, lines 103-117: the inner reader gives df_2, the cell is computed  *)
(* and its entries are printed; after the last chunk the outer loop goes   *)
(* on.                                                                     *)
CsvCell(df_2, out_data, strategy, compared) ==
    /\ csv_visits' = Append(csv_visits,
                            [p |-> csv_k1, q |-> csv_k2,
                             strategy |-> strategy,
                             rows_read |-> Len(df_2),
                             compared |-> compared])
    /\ csv_out' = csv_out \o out_data
    /\ IF csv_k2 + 1 < NChunks(n_batch \div 2)
       THEN /\ csv_k2' = csv_k2 + 1
            /\ UNCHANGED <<csv_k1, csv_pc>>
       ELSE /\ csv_k2' = csv_k2
            /\ csv_k1' = csv_k1 + 1
            /\ csv_pc' = "outer"
    /\ UNCHANGED csv_df1
    /\ UNCHANGED <<blueVars, concVars, sheetVars, editVars>>

(* main, lines 107-108 *)
CsvCellTriangle ==
    /\ csv_pc = "inner"
    /\ csv_k1 = csv_k2
    /\ LET df_2 == read_csv_chunk(csv_k2, n_batch \div 2) IN
       CsvCell(df_2, triangle_test(csv_df1, df_2), "triangle",
               TriangleCompared(csv_df1, df_2))

(* main, lines 110-111 *)
CsvCellSquare ==
    /\ csv_pc = "inner"
    /\ csv_k1 < csv_k2
    /\ LET df_2 == read_csv_chunk(csv_k2, n_batch \div 2) IN
       CsvCell(df_2, square_test(csv_df1, df_2), "square",
               Len(csv_df1) * Len(df_2))

(* main, lines 113-114 *)
CsvCellSkip ==
    /\ csv_pc = "inner"
    /\ csv_k1 > csv_k2
    /\ LET df_2 == read_csv_chunk(csv_k2, n_batch \div 2) IN
       CsvCell(df_2, <<>>, "skip", 0)

NextCsv ==
    \/ CsvMain
    \/ CsvOuter
    \/ CsvCellTriangle
    \/ CsvCellSquare
    \/ CsvCellSkip

SpecCsv == InitCsv /\ [][NextCsv]_vars

----------------------------------------------------------------------------
(* Two cells of the file-based scan computed at the same time by two       *)
(* workers: every read_data call goes through the one file tmp.gb          *)

(* _square / _triangle: the files the cell calls read_data on, in order *)
ReadsOf(cell) ==
    LET ps == CellPairs(chunks_of_files, cell[1], cell[2]) IN
    Concat([i \in DOMAIN ps |-> <<ps[i][1].path, ps[i][2].path>>])

(* The file worker w is reading *)
CurrentFile(w) == ReadsOf(w_cell[w])[Len(w_got[w]) + 1]

(* The cells that are computed: p <= q *)
UpperCells ==
    {c \in (0..(Len(chunks_of_files) - 1)) \X (0..(Len(chunks_of_files) - 1)) :
        c[1] <= c[2]}

InitConc ==
    /\ files \in UNION {[1..k -> Payloads] : k \in 2..ConcMaxN}
    /\ n_batch \in 1..MaxBatch
    /\ chunks_of_files = chunk_(get_gb_list(files), n_batch)
    /\ pc = "workers"
    /\ k_chunk1 = 0
    /\ k_chunk2 = 0
    /\ data_pairs = <<>>
    /\ k_pair = 1
    /\ visits = <<>>
    /\ yielded = <<>>
    /\ out = <<>>
    /\ n_counter = 0
    /\ summary = -1
    /\ CsvIdle
    /\ SheetIdle
    /\ EditIdle
    /\ tmp_gb = ""
    /\ w_cell \in [Workers -> UpperCells]
    /\ w_cell[1] # w_cell[2]
    /\ w_step = [w \in Workers |->
                    IF ReadsOf(w_cell[w]) = <<>> THEN "done" ELSE "open"]
    /\ w_got = [w \in Workers |-> <<>>]

(* cleanse_comments, line 183: open(TMP_FILENAME, 'w') empties tmp.gb *)
WOpen(w) ==
    /\ w_step[w] = "open"
    /\ tmp_gb' = ""
    /\ w_step' = [w_step EXCEPT ![w] = "write"]
    /\ UNCHANGED <<w_cell, w_got, blueVars, csvVars,
                 sheetVars, editVars>>

(* cleanse_comments, lines 185-194: the cleansed file is written and the   *)
(* handle closed                                                           *)
WWrite(w) ==
    /\ w_step[w] = "write"
    /\ tmp_gb' = files[CurrentFile(w)]
    /\ w_step' = [w_step EXCEPT ![w] = "parse"]
    /\ UNCHANGED <<w_cell, w_got, blueVars, csvVars,
                 sheetVars, editVars>>

(* read_data, lines 216-222: tmp.gb is opened and parsed, the record takes *)
(* its sequence from it and its path from the handle; on an empty tmp.gb   *)
(* next(parser_generator) of line 154 raises.                              *)
WParse(w) ==
    /\ w_step[w] = "parse"
    /\ IF tmp_gb = ""
       THEN /\ w_step' = [w_step EXCEPT ![w] = "failed"]
            /\ UNCHANGED w_got
       ELSE /\ w_got' = [w_got EXCEPT
                           ![w] = Append(@, [sequence |-> tmp_gb,
                                             path |-> CurrentFile(w)])]
            /\ w_step' = [w_step EXCEPT
                            ![w] = IF Len(w_got[w]) + 1
                                        < Len(ReadsOf(w_cell[w]))
                                   THEN "open" ELSE "done"]
    /\ UNCHANGED <<tmp_gb, w_cell, blueVars, csvVars,
                 sheetVars, editVars>>

NextConc ==
    \E w \in Workers :
       \/ WOpen(w)
       \/ WWrite(w)
       \/ WParse(w)

SpecConc == InitConc /\ [][NextConc]_vars

----------------------------------------------------------------------------
(* sheet_reader.py: a SheetContent instance and the calls a caller makes   *)
(* on it, one after the other; an exception a call raises is caught by the *)
(* caller, who may go on using the instance.                               *)

(* The sheets of the workbook, and a name that is no sheet of it *)
SheetNames == {"s1", "s2"}

NoSheet == "s0"

GroupKeys == {"k1", "k2"}

(* The image files named in the drawings of the workbook *)
Images == {"i1", "i2"}

(* sheetname2img[s], lines 100-104: the images of a sheet in the order of  *)
(* its drawing, here without repetition                                    *)
ImageLists ==
    {q \in SeqsUpTo(Images, Cardinality(Images)) :
        \A i, j \in DOMAIN q : i # j => q[i] # q[j]}

(* __init__, lines 56-60: the embedded files with .png or .jpg in their    *)
(* name are extracted; an image of another type is not                     *)
ExtractedSets == {Images, Images \ {"i2"}}

(* A dict, as the sequence of its items in insertion order *)
Dict(items) == [is_none |-> FALSE, items |-> items]

InitSheet ==
    /\ files = <<>>
    /\ n_batch = 0
    /\ BlueIdle
    /\ CsvIdle
    /\ ConcIdle
    /\ EditIdle
    /\ sh_keys \in [SheetNames -> SeqsUpTo(GroupKeys, MaxRows)]
    /\ sh_imgs \in [SheetNames -> ImageLists]
    /\ img_paths \in ExtractedSets
    /\ association = NoneAssociation
    /\ saved = {}
    /\ sh_log = <<>>

(* Faulty variant of ordered_unique: repeated keys are kept *)
ordered_unique_All(seq) == seq

(* ordered_unique, lines 146-149: the elements in the order of their first *)
(* occurrence                                                              *)
ordered_unique(seq) ==
    LET F[i \in 0..Len(seq)] ==
           IF i = 0 THEN <<>>
           ELSE IF \E j \in DOMAIN F[i - 1] : F[i - 1][j] = seq[i]
                THEN F[i - 1]
                ELSE Append(F[i - 1], seq[i])
    IN  F[Len(seq)]

(* get_image_content, lines 126-131, for a sheet of the workbook *)
get_image_content(sheet_name) == sh_imgs[sheet_name]

(* zip(vars, imgs), line 157 *)
zip(group_keys, imgs) ==
    [k \in DOMAIN group_keys |-> <<group_keys[k], imgs[k]>>]

(* The entry of the history for a call *)
Call(op, arg, raised, ret, assoc, written) ==
    [op |-> op, arg |-> arg, raised |-> raised, ret |-> ret,
     assoc |-> assoc, saved |-> written]

(* associate_imgs, lines 151-164.  For a name that is no sheet of the      *)
(* workbook pd.read_excel raises at line 151, before the association is    *)
(* touched.                                                                *)
AssociateImgs(sheet_name) ==
    /\ Len(sh_log) < MaxCalls
    /\ IF sheet_name \notin SheetNames
       THEN /\ UNCHANGED association
            /\ sh_log' = Append(sh_log,
                   Call("associate_imgs", sheet_name, "SheetNotFound",
                        <<>>, association, {}))
       ELSE LET group_keys == ordered_unique(sh_keys[sheet_name])
                imgs == get_image_content(sheet_name)
                items == IF Len(group_keys) = Len(imgs)
                            THEN zip(group_keys, imgs)
                            ELSE <<>>
            IN  /\ association' = Dict(items)
                /\ sh_log' = Append(sh_log,
                       Call("associate_imgs", sheet_name, "none",
                            items, Dict(items), {}))
    /\ UNCHANGED <<sh_keys, sh_imgs, img_paths, saved>>
    /\ UNCHANGED <<blueVars, csvVars, concVars, editVars>>

(* The loop of save_assocation, lines 177-188: the images written and the  *)
(* exception that ended it, if any.  An image name is in the paths that    *)
(* end with it.                                                            *)
RECURSIVE save_loop(_, _, _)
save_loop(items, paths, written) ==
    IF items = <<>>
    THEN [saved |-> written, raised |-> "none"]
    ELSE LET run == Head(items)[1]
             img_name == Head(items)[2]
             img_source == {x \in paths : x = img_name}
         IN  IF Cardinality(img_source) > 1
             THEN [saved |-> written, raised |-> "MultipleImages"]
             ELSE IF Cardinality(img_source) = 0
             THEN [saved |-> written, raised |-> "NoImage"]
             ELSE save_loop(Tail(items), paths,
                            written \cup {[run |-> run, img |-> img_name]})

(* Faulty variant of save_assocation: no check of line 174 *)
SaveAssocation_NoCheck ==
    /\ Len(sh_log) < MaxCalls
    /\ LET r == save_loop(association.items, img_paths, {}) IN
       /\ saved' = saved \cup r.saved
       /\ sh_log' = Append(sh_log,
              Call("save_assocation", "dir", r.raised, <<>>,
                   association, r.saved))
    /\ UNCHANGED <<sh_keys, sh_imgs, img_paths, association>>
    /\ UNCHANGED <<blueVars, csvVars, concVars, editVars>>

(* save_assocation, lines 174-188 *)
SaveAssocation ==
    /\ Len(sh_log) < MaxCalls
    /\ IF association.is_none
       THEN /\ saved' = saved
            /\ sh_log' = Append(sh_log,
                   Call("save_assocation", "dir", "NoAssociation", <<>>,
                        association, {}))
       ELSE LET r == save_loop(association.items, img_paths, {}) IN
            /\ saved' = saved \cup r.saved
            /\ sh_log' = Append(sh_log,
                   Call("save_assocation", "dir", r.raised, <<>>,
                        association, r.saved))
    /\ UNCHANGED <<sh_keys, sh_imgs, img_paths, association>>
    /\ UNCHANGED <<blueVars, csvVars, concVars, editVars>>

NextSheet ==
    \/ \E sheet_name \in SheetNames \cup {NoSheet} : AssociateImgs(sheet_name)
    \/ SaveAssocation

SpecSheet == InitSheet /\ [][NextSheet]_vars

----------------------------------------------------------------------------
(* belgian_edit.py: main's loop body for one row of the mapping, run       *)
(* without --blank-hc-lc and --kill-hc-lc (lines 152-169 not taken).       *)

(* min(6, ...) of line 143 *)
GuessRow == 6

(* What a line of the input holds: the text VNTNAME| (in a COMMENT line),  *)
(* the text COMMENT without it, or neither                                 *)
LineKinds == {"OTHER", "COMMENT", "VNTNAME"}

(* row.loc['protein name'], and the name in a VNTNAME line of the input *)
ProteinName == "protein"

OldName == "old"

(* Line i of the input: the text before its first '|' (what it holds, and  *)
(* i for the rest of that text, different in every line) and the name      *)
(* after it                                                                *)
Line(kind, i) ==
    [text |-> kind, id |-> i,
     name |-> IF kind = "VNTNAME" THEN OldName ELSE ""]

(* fin.read().split('\n'), line 116 *)
input_data == [i \in DOMAIN ed_kinds |-> Line(ed_kinds[i], i)]

(* 'VNTNAME|' in x, line 119 *)
HasVntname(x) == x.text = "VNTNAME"

(* 'COMMENT' in row, line 142 *)
HasComment(x) == x.text \in {"COMMENT", "VNTNAME"}

(* The k-th (0-based) element of a set of numbers in increasing order *)
Nth(S, k) == CHOOSE x \in S : Cardinality({y \in S : y < x}) = k

(* list.pop(n) and list.insert(n, x), n 0-based *)
ListPop(data, n) == SubSeq(data, 1, n) \o SubSeq(data, n + 2, Len(data))

ListInsert(data, n, x) ==
    SubSeq(data, 1, n) \o <<x>> \o SubSeq(data, n + 1, Len(data))

InitEdit ==
    /\ files = <<>>
    /\ n_batch = 0
    /\ BlueIdle
    /\ CsvIdle
    /\ ConcIdle
    /\ SheetIdle
    /\ ed_kinds \in SeqsUpTo(LineKinds, MaxLines)
    /\ ed_pc = "row"
    /\ ed_all_data = <<>>
    /\ ed_out = <<>>
    /\ ed_err = "none"

(* main, lines 115-149: read the file, find or guess the VNTNAME row, put  *)
(* the new VNTNAME line there                                              *)
EditVntname ==
    /\ ed_pc = "row"
    /\ LET all_data == input_data
           vntname_rows == {n \in 0..(Len(all_data) - 1) :
                               HasVntname(all_data[n + 1])}
           comment_rows == {n \in 0..(Len(all_data) - 1) :
                               HasComment(all_data[n + 1])}
           guess == IF GuessRow < Cardinality(comment_rows)
                       THEN GuessRow ELSE Cardinality(comment_rows)
       IN  IF vntname_rows # {}
           THEN IF Cardinality(vntname_rows) # 1
                THEN /\ ed_err' = "RuntimeError"
                     /\ ed_pc' = "raised"
                     /\ ed_all_data' = all_data
                ELSE LET vntname_index == Nth(vntname_rows, 0)
                         vntname == all_data[vntname_index + 1]
                         vntname_new == [vntname EXCEPT !.name = ProteinName]
                     IN  /\ ed_all_data' =
                               ListInsert(ListPop(all_data, vntname_index),
                                          vntname_index, vntname_new)
                         /\ ed_pc' = "write"
                         /\ ed_err' = ed_err
           ELSE IF guess >= Cardinality(comment_rows)
                THEN /\ ed_err' = "IndexError"
                     /\ ed_pc' = "raised"
                     /\ ed_all_data' = all_data
                ELSE LET vntname_index == Nth(comment_rows, guess)
                         vntname_new == [text |-> "VNTNAME", id |-> 0,
                                         name |-> ProteinName]
                     IN  /\ ed_all_data' =
                               ListInsert(all_data, vntname_index, vntname_new)
                         /\ ed_pc' = "write"
                         /\ ed_err' = ed_err
    /\ UNCHANGED <<ed_kinds, ed_out>>
    /\ UNCHANGED <<blueVars, csvVars, concVars, sheetVars>>

(* main, lines 172-178: the output file *)
EditWrite ==
    /\ ed_pc = "write"
    /\ ed_out' = ed_all_data
    /\ ed_pc' = "written"
    /\ UNCHANGED <<ed_kinds, ed_all_data, ed_err>>
    /\ UNCHANGED <<blueVars, csvVars, concVars, sheetVars>>

NextEdit == EditVntname \/ EditWrite

SpecEdit == InitEdit /\ [][NextEdit]_vars


----------------------------------------------------------------------------
(* Derived quantities *)

N == Len(files)

M == Len(chunks_of_files)

Chunked == pc # "main"

(* The rows printed, as a set *)
Reported == {out[i] : i \in DOMAIN out}

(* All position pairs i < j with equal payloads *)
BruteForce ==
    {<<i, j>> \in (1..N) \X (1..N) : i < j /\ files[i] = files[j]}

(* The batch (0-based index) that holds identifier f *)
ChunkOf(f) ==
    CHOOSE c \in 0..(M - 1) :
        \E l \in DOMAIN chunks_of_files[c + 1] : chunks_of_files[c + 1][l] = f

(* Record objects held by the generator: two per entry of data_pairs, each *)
(* the result of a read_data call of its own                               *)
Resident == 2 * Len(data_pairs)

----------------------------------------------------------------------------
(* Properties *)

PairOf(y) == {y.d1.path, y.d2.path}

(* C1 - Completeness: when a scan of N >= 1 files with a positive batch    *)
(* size has completed, the rows printed are exactly the position pairs     *)
(* i < j with equal payloads; during the scan no other row is printed.     *)
C1_Completeness ==
    (N >= 1 /\ n_batch >= 1) =>
        /\ Reported \subseteq BruteForce
        /\ pc = "done" => Reported = BruteForce

C1_Witness ==
    /\ pc = "done"
    /\ n_batch >= 1
    /\ M >= 2
    /\ Reported # {}
    /\ Cardinality(Reported) < (N * (N - 1)) \div 2
    /\ \E r \in Reported : ChunkOf(r[1]) # ChunkOf(r[2])
    /\ \E r \in Reported : ChunkOf(r[1]) = ChunkOf(r[2])

(* C2 - No duplicate or self pairs: no yielded pair holds one position     *)
(* twice, no unordered pair of positions is yielded twice, every yielded   *)
(* pair comes from the cell of the batches that hold its two positions,    *)
(* and a completed scan has yielded every pair of distinct positions.      *)
C2_NoDuplicateNoSelf ==
    /\ \A y \in DOMAIN yielded : yielded[y].d1.path # yielded[y].d2.path
    /\ \A y1, y2 \in DOMAIN yielded :
          y1 # y2 => PairOf(yielded[y1]) # PairOf(yielded[y2])
    /\ \A y \in DOMAIN yielded :
          /\ yielded[y].p <= yielded[y].q
          /\ {yielded[y].p, yielded[y].q} =
                {ChunkOf(yielded[y].d1.path), ChunkOf(yielded[y].d2.path)}
    /\ pc = "done" =>
          \A i, j \in 1..N :
             i # j => \E y \in DOMAIN yielded : PairOf(yielded[y]) = {i, j}

C2_Witness ==
    /\ pc = "done"
    /\ M >= 2
    /\ N >= 4
    /\ \E y \in DOMAIN yielded : yielded[y].p = yielded[y].q
    /\ \E y \in DOMAIN yielded : yielded[y].p < yielded[y].q

(* C3 - Order invariant: the first record of every yielded pair has a      *)
(* strictly lower position than the second, and every identifier of an     *)
(* earlier batch is lower than every identifier of a later batch.          *)
C3_OrderInvariant ==
    /\ \A y \in DOMAIN yielded : yielded[y].d1.path < yielded[y].d2.path
    /\ \A c1, c2 \in 1..M :
          c1 < c2 =>
             \A a \in DOMAIN chunks_of_files[c1] :
                \A b \in DOMAIN chunks_of_files[c2] :
                   chunks_of_files[c1][a] < chunks_of_files[c2][b]

C3_Witness ==
    /\ \E y \in DOMAIN yielded :
          /\ yielded[y].p < yielded[y].q
          /\ yielded[y].d2.path > yielded[y].d1.path + 1
    /\ \E y \in DOMAIN yielded : yielded[y].p = yielded[y].q

(* C4 - Batch-count invariance: the rows printed by a completed scan are   *)
(* the rows a scan of the same files prints for every other positive       *)
(* batch size.                                                             *)
C4_BatchCountInvariance ==
    (pc = "done" /\ n_batch >= 1) =>
        \A nb \in 1..(MaxBatch + 1) :
           /\ Reported = MatchSet(nb)
           /\ n_counter = Cardinality(MatchSet(nb))

C4_Witness ==
    /\ pc = "done"
    /\ n_batch >= 1
    /\ M >= 3
    /\ n_counter >= 2
    /\ Len(chunk_(genbank_files, MaxBatch)) = 1

(* C5 - Batcher partition: the batches of chunk_, concatenated in batch    *)
(* order, are the identifier list, and every identifier is at exactly one  *)
(* place of exactly one batch.                                             *)
C5_Partition ==
    Chunked =>
        /\ Concat(chunks_of_files) = genbank_files
        /\ \A f \in 1..N :
              Cardinality({<<c, l>> \in (1..M) \X (1..N) :
                              /\ l \in DOMAIN chunks_of_files[c]
                              /\ chunks_of_files[c][l] = f}) = 1

C5_Witness ==
    /\ Chunked
    /\ M >= 2
    /\ Len(chunks_of_files[M]) < Len(chunks_of_files[1])

(* C6 - Memory bound: the records held in memory are never more than the   *)
(* records of the two batches of the current cell, and fewer than the      *)
(* whole record set when there are several batches.                        *)
C6_MemoryBound ==
    (pc = "yield" /\ n_batch >= 1) =>
        /\ Resident <= Len(chunks_of_files[k_chunk1 + 1])
                       + Len(chunks_of_files[k_chunk2 + 1])
        /\ M > 1 => Resident < N

(* C7 - Single-batch boundary: with 1 <= N <= n_batch there is one batch   *)
(* holding all identifiers, only cell (0,0) is visited, with the           *)
(* triangular strategy, a completed scan has visited it once, and N = 1    *)
(* yields no pair.                                                         *)
C7_SingleBatch ==
    (Chunked /\ 1 <= N /\ N <= n_batch) =>
        /\ chunks_of_files = <<genbank_files>>
        /\ \A v \in DOMAIN visits :
              visits[v] = [p |-> 0, q |-> 0, strategy |-> "triangle"]
        /\ pc \in {"yield", "end", "done"} => Len(visits) = 1
        /\ N = 1 => yielded = <<>>
        /\ pc # "raised"

C7_Witness ==
    /\ pc = "done"
    /\ N = n_batch
    /\ N >= 3
    /\ Len(visits) = 1
    /\ Len(yielded) = (N * (N - 1)) \div 2

(* C8 - Batch size when splitting: with N > n_batch >= 1 every batch but   *)
(* the last has floor(n_batch / 2) identifiers and the last has between 1  *)
(* and floor(n_batch / 2).                                                 *)
C8_FloorHalf ==
    (Chunked /\ n_batch >= 1 /\ N > n_batch) =>
        /\ \A c \in 1..(M - 1) : Len(chunks_of_files[c]) = n_batch \div 2
        /\ Len(chunks_of_files[M]) \in 1..(n_batch \div 2)

(* C9 - Pair bound: with N > n_batch >= 1 any two distinct batches hold    *)
(* at most n_batch identifiers together.                                   *)
C9_PairBound ==
    (Chunked /\ n_batch >= 1 /\ N > n_batch) =>
        \A c1, c2 \in 1..M :
           c1 # c2 =>
              Len(chunks_of_files[c1]) + Len(chunks_of_files[c2]) <= n_batch

(* C10 - Batch size bound: with N >= 1 and n_batch >= 1 every batch is     *)
(* non-empty and has at most n_batch identifiers, all batches but the      *)
(* last have the same size and the last is not larger.                     *)
C10_BatchSizeBound ==
    (Chunked /\ N >= 1 /\ n_batch >= 1) =>
        /\ M >= 1
        /\ \A c \in 1..M :
              /\ Len(chunks_of_files[c]) >= 1
              /\ Len(chunks_of_files[c]) <= n_batch
        /\ \A c \in 1..(M - 1) :
              /\ Len(chunks_of_files[c]) = Len(chunks_of_files[1])
              /\ Len(chunks_of_files[M]) <= Len(chunks_of_files[c])

C10_Witness ==
    /\ Chunked
    /\ n_batch >= 1
    /\ M >= 2
    /\ Len(chunks_of_files[M]) < Len(chunks_of_files[1])

(* C11 - Empty input: with an empty folder and a positive batch size the   *)
(* run fails with the empty-input error and does not complete.             *)
C11_EmptyInputFails ==
    (N = 0 /\ n_batch >= 1 /\ Chunked) => pc = "raised"

(* C12 - Configuration check: with a batch size of 0 or less nothing is    *)
(* batched, no cell is visited and no pair is read or compared.            *)
C12_NonPositiveRejected ==
    n_batch <= 0 =>
        /\ chunks_of_files = <<>>
        /\ visits = <<>>
        /\ yielded = <<>>

(* The row-major rank of a cell *)
Rank(p, q) == p * M + q

(* C13 - Visiting order: the v-th cell visited is the v-th cell in         *)
(* row-major order, the pairs are yielded in the order of their cells      *)
(* (the pairs of one cell together, before those of every later cell), a   *)
(* completed scan has visited the M * M cells, and the sequence yielded    *)
(* is the one a second evaluation of the scan over the batches gives.      *)
C13_VisitingOrder ==
    /\ \A v \in DOMAIN visits :
          /\ visits[v].p = (v - 1) \div M
          /\ visits[v].q = (v - 1) % M
    /\ \A y1, y2 \in DOMAIN yielded :
          y1 < y2 => Rank(yielded[y1].p, yielded[y1].q)
                        <= Rank(yielded[y2].p, yielded[y2].q)
    /\ \A y \in DOMAIN yielded :
          /\ y <= Len(lower_triangular(chunks_of_files))
          /\ <<yielded[y].d1, yielded[y].d2>>
                = lower_triangular(chunks_of_files)[y]
    /\ pc = "done" =>
          /\ Len(visits) = M * M
          /\ Len(yielded) = Len(lower_triangular(chunks_of_files))

C13_Witness ==
    /\ pc = "done"
    /\ M >= 3
    /\ Len(chunks_of_files[1]) >= 2
    /\ Cardinality({Rank(yielded[y].p, yielded[y].q) : y \in DOMAIN yielded})
          >= 5

(* The equal-payload pairs of readable files *)
ReadablePairs == {r \in BruteForce : files[r[1]] # Malformed}

(* C16 - Per-record read errors: a malformed file does not abort the scan, *)
(* and the completed scan has reported every equal pair of readable files. *)
C16_ReadErrorRecovered ==
    /\ pc # "aborted"
    /\ pc = "done" => ReadablePairs \subseteq Reported

(* C18 - All-or-abort output: a run that aborts has printed no match row.  *)
C18_AllOrAbort ==
    pc = "aborted" => out = <<>>

(* C19 - Summary count: the count printed at the end is the number of rows *)
(* printed, it is printed when the scan has completed, and no row is       *)
(* printed after it.                                                       *)
C19_SummaryCount ==
    /\ pc = "done" => summary = Len(out)
    /\ summary # -1 => (pc = "done" /\ summary = Len(out))

C19_Witness ==
    /\ pc = "done"
    /\ summary >= 2
    /\ Len(yielded) > summary
    /\ M >= 2

(* The folder of the scenario: payloads x, y, x, x *)
ScenarioFiles == <<"x", "y", "x", "x">>

InScenario == files = ScenarioFiles /\ n_batch = 2 /\ Chunked

(* The cells that yielded the rows printed, in order *)
MatchCells ==
    LET ms == SelectSeq(yielded, LAMBDA y : SameSequence(y.d1, y.d2)) IN
    [i \in DOMAIN ms |-> <<ms[i].p, ms[i].q, ms[i].d1.path, ms[i].d2.path>>]

(* C20 as stated - Scenario: the batches are [[A,B],[C,D]]; the completed  *)
(* scan has printed (A,C) and (A,D) from cell (0,1) and (C,D) from cell    *)
(* (1,1), and nothing else.                                                *)
C20_ScenarioAsStated ==
    InScenario =>
        /\ chunks_of_files = <<<<1, 2>>, <<3, 4>>>>
        /\ pc = "done" =>
              MatchCells = <<<<0, 1, 1, 3>>, <<0, 1, 1, 4>>, <<1, 1, 3, 4>>>>

(* C20 amended - Scenario: the batches are [[A],[B],[C],[D]]; the          *)
(* completed scan has printed (A,C) from cell (0,2), (A,D) from cell (0,3) *)
(* and (C,D) from cell (2,3), in this order and nothing else; the diagonal *)
(* cells yield nothing and every cell with p > q is skipped.               *)
C20_Scenario ==
    InScenario =>
        /\ chunks_of_files = <<<<1>>, <<2>>, <<3>>, <<4>>>>
        /\ \A y \in DOMAIN yielded : yielded[y].p < yielded[y].q
        /\ \A v \in DOMAIN visits :
              visits[v].p > visits[v].q <=> visits[v].strategy = "skip"
        /\ Reported \subseteq {<<1, 3>>, <<1, 4>>, <<3, 4>>}
        /\ pc = "done" =>
              /\ MatchCells
                    = <<<<0, 2, 1, 3>>, <<0, 3, 1, 4>>, <<2, 3, 3, 4>>>>
              /\ out = <<<<1, 3>>, <<1, 4>>, <<3, 4>>>>
              /\ summary = 3
              /\ Len(visits) = 16

C20_Witness ==
    /\ InScenario
    /\ pc = "done"
    /\ Cardinality(Reported) = 3

(* C14, file-based scanner: a cell with p > q is visited with the skip     *)
(* branch, which builds an empty list: no file is read.                    *)
C14_BlueSkip ==
    /\ \A v \in DOMAIN visits :
          visits[v].p > visits[v].q => visits[v].strategy = "skip"
    /\ pc = "yield" => k_chunk1 <= k_chunk2
    /\ \A y \in DOMAIN yielded : yielded[y].p <= yielded[y].q

(* C14, CSV-based scanner: a cell with p > q reads no row and compares no  *)
(* sequence.                                                               *)
C14_CsvSkip ==
    \A v \in DOMAIN csv_visits :
       csv_visits[v].p > csv_visits[v].q =>
          /\ csv_visits[v].rows_read = 0
          /\ csv_visits[v].compared = 0

(* C14 - Lower-triangle skip: in both scanners a cell with p > q reads no  *)
(* record and compares no payload.                                         *)
C14_LowerTriangleSkip == C14_BlueSkip /\ C14_CsvSkip

(* C17 - Sentinel policy: no entry printed by the CSV scan pairs a file    *)
(* whose sequence was replaced by the sentinel with a readable file.       *)
C17_SentinelPolicy ==
    \A e \in DOMAIN csv_out :
       (files[csv_out[e][1]] = Malformed) <=> (files[csv_out[e][2]] = Malformed)

C17_Witness ==
    /\ csv_pc = "done"
    /\ \E e \in DOMAIN csv_out : files[csv_out[e][1]] = Malformed
    /\ \E e \in DOMAIN csv_out : files[csv_out[e][1]] # Malformed
    /\ \E v \in DOMAIN csv_visits :
          /\ csv_visits[v].strategy = "square"
          /\ files[csv_visits[v].p * (n_batch \div 2) + 1] = Malformed
          /\ files[csv_visits[v].q * (n_batch \div 2) + 1] # Malformed
    /\ \E i \in 1..(Len(files) - 1) :
          /\ i % 2 = 1
          /\ n_batch = 4
          /\ files[i] # Malformed
          /\ files[i + 1] = Malformed

(* The pairs worker w has built from the records read so far *)
PairsGot(w) ==
    [i \in 1..(Len(w_got[w]) \div 2) |->
        <<w_got[w][2 * i - 1], w_got[w][2 * i]>>]

(* C15 - Concurrency safety: when two cells are computed at the same time, *)
(* no read fails, every record read holds the sequence of the file it was  *)
(* read from, and a finished cell has the pairs of a sequential run.       *)
C15_ConcurrencySafe ==
    \A w \in Workers :
       /\ w_step[w] # "failed"
       /\ \A i \in DOMAIN w_got[w] :
             w_got[w][i].sequence = files[w_got[w][i].path]
       /\ w_step[w] = "done" =>
             PairsGot(w) = CellPairs(chunks_of_files, w_cell[w][1], w_cell[w][2])

(* C21 - Single-batch boundary of the CSV scanner: with N <= n_batch (and  *)
(* a chunk size the reader accepts) the only cell visited is (0,0), with   *)
(* triangle_test.                                                          *)
C21_CsvSingleBatch ==
    (Len(files) <= n_batch /\ ChunkSizeValid(n_batch)) =>
        \A v \in DOMAIN csv_visits :
           /\ csv_visits[v].p = 0
           /\ csv_visits[v].q = 0
           /\ csv_visits[v].strategy = "triangle"

(* The place of the pair (k, l), k < l, in the list of a batch of n *)
TriangleIndex(n, k, l) == (k - 1) * n - ((k * (k - 1)) \div 2) + (l - k)

(* The rows of the CSV file for the files of a batch *)
RowsOf(chunk) == [i \in DOMAIN chunk |-> csv_rows[chunk[i]]]

(* The rows of the CSV file for the files of a list of pairs of records *)
RowPairsOf(pairs) ==
    [i \in DOMAIN pairs |-> <<csv_rows[pairs[i][1].path],
                              csv_rows[pairs[i][2].path]>>]

(* C23 - Triangular strategy: for every batch of n files _triangle gives   *)
(* n(n-1)/2 pairs, the pair (batch[k], batch[l]), k < l, at its place in   *)
(* the lexicographic order of (k, l); it is the list of a diagonal cell;   *)
(* and triangle_test over the rows of the batch prints the equal pairs of  *)
(* the same pairs, in the same order.                                      *)
C23_Triangular ==
    /\ \A c \in 1..M :
          LET chunk == chunks_of_files[c]
              n == Len(chunk)
              t == _triangle(chunk)
          IN  /\ Len(t) = (n * (n - 1)) \div 2
              /\ \A k, l \in 1..n :
                    k < l => t[TriangleIndex(n, k, l)]
                                = <<read_data(chunk[k]), read_data(chunk[l])>>
              /\ triangle_test(RowsOf(chunk), RowsOf(chunk))
                    = Entries(SelectSeq(RowPairsOf(t),
                                LAMBDA rp : SameSequenceCsv(rp[1], rp[2])))
    /\ (pc = "yield" /\ k_chunk1 = k_chunk2) =>
          LET chunk == chunks_of_files[k_chunk1 + 1] IN
          /\ Len(data_pairs) = (Len(chunk) * (Len(chunk) - 1)) \div 2
          /\ \A k, l \in 1..Len(chunk) :
                k < l => data_pairs[TriangleIndex(Len(chunk), k, l)]
                            = <<read_data(chunk[k]), read_data(chunk[l])>>

C23_Witness ==
    /\ pc = "yield"
    /\ k_chunk1 = k_chunk2
    /\ Len(chunks_of_files[k_chunk1 + 1]) >= 4
    /\ k_pair = Len(data_pairs)
    /\ Len(out) \in 1..(Len(yielded) - 1)

(* C24 - FullCross strategy: for two batches of m and n files, the first   *)
(* before the second, _square gives m * n pairs, the pair (chunk1[k],      *)
(* chunk2[l]) at place (k - 1) * n + l; it is the list of a cell above the *)
(* diagonal, whose pairs have the record of batch p first.                 *)
C24_FullCross ==
    /\ \A c1, c2 \in 1..M :
          c1 < c2 =>
             LET chunk1 == chunks_of_files[c1]
                 chunk2 == chunks_of_files[c2]
                 sq == _square(chunk1, chunk2)
             IN  /\ Len(sq) = Len(chunk1) * Len(chunk2)
                 /\ \A k \in 1..Len(chunk1) :
                       \A l \in 1..Len(chunk2) :
                          sq[(k - 1) * Len(chunk2) + l]
                             = <<read_data(chunk1[k]), read_data(chunk2[l])>>
    /\ (pc = "yield" /\ k_chunk1 < k_chunk2) =>
          LET chunk1 == chunks_of_files[k_chunk1 + 1]
              chunk2 == chunks_of_files[k_chunk2 + 1]
          IN  /\ Len(data_pairs) = Len(chunk1) * Len(chunk2)
              /\ \A k \in 1..Len(chunk1) :
                    \A l \in 1..Len(chunk2) :
                       data_pairs[(k - 1) * Len(chunk2) + l]
                          = <<read_data(chunk1[k]), read_data(chunk2[l])>>
              /\ \A i \in DOMAIN data_pairs :
                    /\ ChunkOf(data_pairs[i][1].path) = k_chunk1
                    /\ ChunkOf(data_pairs[i][2].path) = k_chunk2

C24_Witness ==
    /\ pc = "yield"
    /\ k_chunk1 < k_chunk2
    /\ Len(chunks_of_files[k_chunk1 + 1]) >= 2
    /\ Len(chunks_of_files[k_chunk2 + 1]) >= 2
    /\ k_pair = Len(data_pairs)

(* C25 - Termination: once the batches are made and there is at least one, *)
(* the scan reaches its end, having visited exactly M * M cells and        *)
(* yielded the N(N-1)/2 pairs.                                             *)
C25_Termination ==
    (Chunked /\ M >= 1) ~>
        (pc = "done" /\ Len(visits) = M * M
                     /\ Len(yielded) = (N * (N - 1)) \div 2)

C25_Witness ==
    /\ pc = "done"
    /\ M >= 3
    /\ Len(visits) = M * M
    /\ Len(yielded) >= 6

(* The number of read_data calls on file f in the list of pairs *)
ReadCount(pairs, f) ==
    Cardinality({i \in DOMAIN pairs : pairs[i][1].path = f})
    + Cardinality({i \in DOMAIN pairs : pairs[i][2].path = f})

(* C26 - Materialize once on the diagonal: in the visit of a cell (p, p)   *)
(* of a batch of two or more files, every file of the batch is read once.  *)
C26_ReadOncePerVisit ==
    (pc = "yield" /\ k_chunk1 = k_chunk2
                  /\ Len(chunks_of_files[k_chunk1 + 1]) >= 2) =>
        \A i \in DOMAIN chunks_of_files[k_chunk1 + 1] :
           ReadCount(data_pairs, chunks_of_files[k_chunk1 + 1][i]) = 1

(* main, line 334: len(chunks) * (len(chunks) + 1) / 2; the product is     *)
(* even, the division exact                                                *)
n_chunk_pairs == (M * (M + 1)) \div 2

(* C29 - Comparison count: a completed scan of N >= 1 files has yielded    *)
(* N(N-1)/2 pairs and has invoked a comparison strategy on M(M+1)/2 cells, *)
(* the number main announces; during the scan neither is exceeded.         *)
C29_ComparisonCount ==
    (Chunked /\ N >= 1) =>
        LET invoked == {v \in DOMAIN visits : visits[v].strategy # "skip"} IN
        /\ Len(yielded) <= (N * (N - 1)) \div 2
        /\ Cardinality(invoked) <= n_chunk_pairs
        /\ pc = "done" =>
              /\ Len(yielded) = (N * (N - 1)) \div 2
              /\ Cardinality(invoked) = (M * (M + 1)) \div 2
              /\ Cardinality(invoked) = n_chunk_pairs

C29_Witness ==
    /\ pc = "done"
    /\ N = 5
    /\ M = 3
    /\ Len(yielded) = 10
    /\ Cardinality({v \in DOMAIN visits : visits[v].strategy = "skip"}) = 3

(* The position pairs the CSV scan has printed *)
CsvReported == {csv_out[e] : e \in DOMAIN csv_out}

(* C28 - Equivalence of the two scanners: over the same files, all         *)
(* readable, and the same even positive batch size, a completed CSV scan   *)
(* has printed the position pairs the file-based scan prints.              *)
C28_Equivalence ==
    (/\ csv_pc = "done"
     /\ ChunkSizeValid(n_batch)
     /\ \A i \in DOMAIN files : files[i] # Malformed) =>
        CsvReported = MatchSet(n_batch)

(* The same, for files whose sequence text the CSV reader keeps *)
C28_EquivalenceKeptText ==
    (/\ csv_pc = "done"
     /\ ChunkSizeValid(n_batch)
     /\ \A i \in DOMAIN files : files[i] \in Payloads) =>
        /\ CsvReported = MatchSet(n_batch)
        /\ Len(csv_out) = Cardinality(CsvReported)

FirstOcc(seq, x) ==
    CHOOSE i \in DOMAIN seq :
        /\ seq[i] = x
        /\ \A j \in 1..(i - 1) : seq[j] # x

(* The k-th distinct element of seq, in the order of first occurrence *)
KthDistinct(seq, k) ==
    CHOOSE x \in {seq[i] : i \in DOMAIN seq} :
        Cardinality({y \in {seq[i] : i \in DOMAIN seq} :
                        FirstOcc(seq, y) < FirstOcc(seq, x)}) = k - 1

(* C27 - Failed association: an associate_imgs call on a sheet raises      *)
(* nothing; when the number of distinct group keys is not the number of    *)
(* images it returns the empty association, which replaces the earlier     *)
(* one, and a save_assocation right after it writes no image and raises    *)
(* nothing; when the numbers are equal the k-th distinct group key is      *)
(* associated with the k-th image.                                         *)
C27_FailedAssociation ==
    \A i \in DOMAIN sh_log :
       (sh_log[i].op = "associate_imgs" /\ sh_log[i].arg \in SheetNames) =>
          LET column == sh_keys[sh_log[i].arg]
              imgs == sh_imgs[sh_log[i].arg]
              n_keys == Cardinality({column[r] : r \in DOMAIN column})
          IN  /\ sh_log[i].raised = "none"
              /\ sh_log[i].assoc = Dict(sh_log[i].ret)
              /\ i = Len(sh_log) => association = sh_log[i].assoc
              /\ IF n_keys # Len(imgs)
                 THEN /\ sh_log[i].ret = <<>>
                      /\ (i + 1 \in DOMAIN sh_log
                            /\ sh_log[i + 1].op = "save_assocation") =>
                            /\ sh_log[i + 1].saved = {}
                            /\ sh_log[i + 1].raised = "none"
                 ELSE /\ Len(sh_log[i].ret) = n_keys
                      /\ \A k \in 1..n_keys :
                            sh_log[i].ret[k] = <<KthDistinct(column, k), imgs[k]>>

C27_Witness ==
    /\ Len(sh_log) = 3
    /\ sh_log[1].op = "associate_imgs"
    /\ sh_log[1].ret = <<<<"k2", "i2">>, <<"k1", "i1">>>>
    /\ sh_log[2].op = "associate_imgs"
    /\ sh_log[2].arg \in SheetNames
    /\ sh_log[2].ret = <<>>
    /\ Len(sh_keys[sh_log[2].arg]) = 2
    /\ Len(sh_imgs[sh_log[2].arg]) = 2
    /\ sh_log[3].op = "save_assocation"
    /\ sh_log[3].raised = "none"
    /\ saved = {}

(* The VNTNAME lines of a list of lines *)
VntnameLines(data) == {i \in DOMAIN data : HasVntname(data[i])}

(* C30 - VNTNAME rewrite: an output file has exactly one VNTNAME line, and *)
(* it carries the protein name.  An input with one VNTNAME line is written *)
(* with that line replaced in place (text before the first '|' kept) and   *)
(* every other line as it was; an input with none and one or more COMMENT  *)
(* lines is written with a new VNTNAME line put in front of one of its     *)
(* COMMENT lines; an input with more than one ends in RuntimeError with no *)
(* output written.                                                         *)
C30_VntnameRewrite ==
    ed_pc \in {"written", "raised"} =>
       LET inp == input_data
           n_vnt == Cardinality(VntnameLines(inp))
           n_comment == Cardinality({i \in DOMAIN inp : HasComment(inp[i])})
       IN  /\ ed_pc = "written" =>
                /\ Cardinality(VntnameLines(ed_out)) = 1
                /\ \A i \in VntnameLines(ed_out) : ed_out[i].name = ProteinName
           /\ n_vnt = 1 =>
                /\ ed_pc = "written"
                /\ Len(ed_out) = Len(inp)
                /\ \A i \in DOMAIN inp :
                      IF HasVntname(inp[i])
                      THEN ed_out[i] = [inp[i] EXCEPT !.name = ProteinName]
                      ELSE ed_out[i] = inp[i]
           /\ (n_vnt = 0 /\ n_comment >= 1) =>
                /\ ed_pc = "written"
                /\ \E n \in 0..(Len(inp) - 1) :
                      /\ HasComment(inp[n + 1])
                      /\ ed_out = ListInsert(inp, n,
                                     [text |-> "VNTNAME", id |-> 0,
                                      name |-> ProteinName])
           /\ n_vnt > 1 =>
                /\ ed_pc = "raised"
                /\ ed_err = "RuntimeError"
                /\ ed_out = <<>>

(* The rewrite of inputs with seven or more COMMENT lines, or with a       *)
(* VNTNAME line                                                            *)
C30_RewriteFromSevenComments ==
    (ed_pc \in {"written", "raised"}
       /\ (VntnameLines(input_data) = {} =>
             Cardinality({i \in DOMAIN input_data :
                             HasComment(input_data[i])}) > GuessRow)) =>
       C30_VntnameRewrite

====
